---- MODULE Spec2Model ----
\* Model of the video captioning pipeline of src/app.py: main() drives every
\* uploaded video through extract_audio_from_video, transcribe_and_save_srt
\* and embed_subtitle_in_video inside one tempfile.TemporaryDirectory, and
\* removes the scratch files of each item afterwards.
EXTENDS Integers, Sequences, FiniteSets, TLC

\* ---------------------------------------------------------------- bounds
MaxBatch == 2
MaxLen == 2

\* ------------------------------------------------------------ file names
\* Names an uploaded file can have (st.file_uploader accepts any base name
\* with one of the four extensions, and the same name more than once): a
\* name, and a second name that is also the output name of the first.
Names == {"a.mp4", "output_a.mp4"}

\* os.path.join(temp_dir, "extracted_audio.wav")
AudioName == "extracted_audio.wav"

\* f"output_{uploaded_video.name}"
OutputName(n) == "output_" \o n

\* every path main() can touch inside temp_dir
WsPaths == Names \cup {OutputName(n) : n \in Names} \cup {AudioName}

\* names tempfile.mktemp(suffix=".srt") can return (system temp directory,
\* outside temp_dir); one more than the items of a batch, so that a fresh
\* name is left even when every earlier subtitle file is still there
NumSrtPaths == MaxBatch + 1
SrtPaths == 1..NumSrtPaths

\* the local variable subtitle_file_path before its first assignment
Unbound == 0

\* ----------------------------------------------------------------- files
\* A file is described by what wrote it, the upload its bytes derive from,
\* and whether it was written to the end.
File(k, i, c) == [kind |-> k, item |-> i, complete |-> c]
NoFile == File("none", 0, FALSE)
Exists(f) == f.kind # "none"

Outcomes == {"ok", "fail_clean", "fail_partial"}

\* --------------------------------------------------------- subtitle text
\* The characters of a service response that the write treats differently:
\* an ordinary character, line feed and carriage return.
Chars == {"x", "LF", "CR"}
Responses == UNION {[1..n -> Chars] : n \in 0..MaxLen}

\* os.linesep of the platform the program runs on (POSIX, Windows)
LineSeps == {<<"LF">>, <<"CR", "LF">>}

\* lines 80-81: open(srt_path, "w", encoding="utf-8") is a text-mode file
\* with newline=None, so f.write turns every line feed of the string into
\* os.linesep; every other character is encoded as it is. The result is
\* the content of the file.
RECURSIVE TextWrite(_, _)
TextWrite(text, sep) ==
    IF text = <<>> THEN <<>>
    ELSE (IF Head(text) = "LF" THEN sep ELSE <<Head(text)>>)
         \o TextWrite(Tail(text), sep)

\* what a write that fails part-way leaves in the file
Truncated(bytes) ==
    IF bytes = <<>> THEN <<>> ELSE SubSeq(bytes, 1, Len(bytes) - 1)

\* the transcript in a run of main(), which never looks at the text
RunResponses == {<<"x">>}

VARIABLES
    batch,              \* uploaded_videos: the names, in upload order
    idx,                \* position of the for loop
    pc,                 \* statement main() is about to execute
    temp_dir,           \* TRUE while the TemporaryDirectory exists
    ws,                 \* files inside temp_dir, by name
    tmp,                \* .srt files in the system temp directory
    subtitle_file_path, \* the local variable of main()
    status,             \* per item: state of the item's pipeline
    failStage,          \* per item: the stage that raised
    failExc,            \* per item: the exception it raised
    reported,           \* per item: st.error(...) was shown for it
    invoked,            \* per item: the stages called, in call order
    svcCalls,           \* calls made to openai.Audio.transcribe
    escaped,            \* the exception that left the for loop, if any
    embedSaw,           \* per item: what the Embedder found when it ran
    srtOf,              \* per item: path returned by the Transcriber
    cleaned,            \* last item whose cleanup block ran
    rmInject,           \* which os.remove of that cleanup the OS refused
    rmReached,          \* how many of its os.remove calls were evaluated
    srtText,            \* content of the .srt files, as read back
    last                \* the latest call of transcribe_and_save_srt

vars == <<batch, idx, pc, temp_dir, ws, tmp, subtitle_file_path, status,
          failStage, failExc, reported, invoked, svcCalls, escaped, embedSaw, srtOf,
          cleaned, rmInject, rmReached, srtText, last>>

Items == 1..Len(batch)
video_file_path == batch[idx]
output_audio_path == AudioName
output_video_path == OutputName(batch[idx])

NoEscape == [exc |-> "none", stage |-> "none", item |-> 0]
NoCall == [called |-> FALSE, audio_present |-> FALSE, exc |-> "none",
           ret |-> Unbound, calls |-> 0, created |-> {},
           response |-> <<>>]

\* ---------------------------------------------------------------- stages
\* variant: an audio file that is already there is taken as the result
extract_audio_keeps_existing(w, video, audio, outcome) ==
    IF Exists(w[audio]) THEN [exc |-> "none", ws |-> w]
    ELSE IF ~Exists(w[video]) \/ outcome # "ok"
    THEN [exc |-> "OSError", ws |-> w]
    ELSE [exc |-> "none",
          ws |-> [w EXCEPT ![audio] = File("audio", w[video].item, TRUE)]]

\* extract_audio_from_video: ffmpeg either writes the audio file and exits
\* 0, or exits non-zero (raised as OSError) before or after it has opened
\* the output file.
extract_audio_from_video(w, video, audio, outcome) ==
    IF ~Exists(w[video]) \/ outcome = "fail_clean"
    THEN [exc |-> "OSError", ws |-> w]
    ELSE IF outcome = "fail_partial"
    THEN [exc |-> "OSError",
          ws |-> [w EXCEPT ![audio] = File("audio", w[video].item, FALSE)]]
    ELSE [exc |-> "none",
          ws |-> [w EXCEPT ![audio] = File("audio", w[video].item, TRUE)]]

\* variant: the subtitle file gets a name that is not checked to be unused
mktemp_any(t) == SrtPaths

\* line 78, tempfile.mktemp(suffix=".srt"): some name at which no file
\* exists at the time of the call
mktemp(t) == {q \in SrtPaths : ~Exists(t[q])}

\* variant: the service is called before the audio file is looked for
transcribe_call_first(w, t, audio, svc, p, wr, resp, sep) ==
    IF svc # "ok"
    THEN [exc |-> "OpenAIError", ret |-> Unbound, tmp |-> t, calls |-> 1,
          text |-> <<>>]
    ELSE IF ~Exists(w[audio])
    THEN [exc |-> "FileNotFoundError", ret |-> Unbound, tmp |-> t,
          calls |-> 1, text |-> <<>>]
    ELSE [exc |-> "none", ret |-> p,
          tmp |-> [t EXCEPT ![p] = File("srt", w[audio].item, TRUE)],
          calls |-> 1, text |-> TextWrite(resp, sep)]

\* transcribe_and_save_srt: isfile check, service call, mktemp, write.
\* svc is the outcome of the service call, p the name mktemp returns, wr
\* the outcome of open/write of the subtitle file, resp the string the
\* service returns, sep the os.linesep of the platform; text is what the
\* file at p holds afterwards.
transcribe_and_save_srt(w, t, audio, svc, p, wr, resp, sep) ==
    IF ~Exists(w[audio])
    THEN [exc |-> "FileNotFoundError", ret |-> Unbound, tmp |-> t,
          calls |-> 0, text |-> <<>>]
    ELSE IF svc # "ok"
    THEN [exc |-> "OpenAIError", ret |-> Unbound, tmp |-> t, calls |-> 1,
          text |-> <<>>]
    ELSE IF wr = "fail_clean"
    THEN [exc |-> "OSError", ret |-> Unbound, tmp |-> t, calls |-> 1,
          text |-> <<>>]
    ELSE IF wr = "fail_partial"
    THEN [exc |-> "OSError", ret |-> Unbound,
          tmp |-> [t EXCEPT ![p] = File("srt", w[audio].item, FALSE)],
          calls |-> 1, text |-> Truncated(TextWrite(resp, sep))]
    ELSE [exc |-> "none", ret |-> p,
          tmp |-> [t EXCEPT ![p] = File("srt", w[audio].item, TRUE)],
          calls |-> 1, text |-> TextWrite(resp, sep)]

\* embed_subtitle_in_video: ffmpeg as in the extraction.
embed_subtitle_in_video(w, t, video, sub, out, outcome) ==
    IF \/ ~Exists(w[video])
       \/ sub \notin SrtPaths
       \/ ~Exists(t[sub])
       \/ outcome = "fail_clean"
    THEN [exc |-> "OSError", ws |-> w]
    ELSE IF outcome = "fail_partial"
    THEN [exc |-> "OSError",
          ws |-> [w EXCEPT ![out] = File("output", w[video].item, FALSE)]]
    ELSE [exc |-> "none",
          ws |-> [w EXCEPT ![out] = File("output", w[video].item, TRUE)]]

\* line 153: open(output_video_path, "rb") for the download button
open_output(w, out) == IF Exists(w[out]) THEN "none" ELSE "FileNotFoundError"

\* the two except clauses of main(): FileNotFoundError and OSError
Caught(exc) == exc \in {"FileNotFoundError", "OSError"}

\* variant: a handled exception does not leave the try block
AfterStageContinues(next, exc) ==
    IF exc = "none" \/ Caught(exc) THEN next ELSE "exit"

\* variant: a handled exception starts the stages of the item again
AfterStageRetries(next, exc) ==
    IF exc = "none" THEN next
    ELSE IF Caught(exc) THEN "extract"
    ELSE "exit"

\* where main() continues after a stage that was called inside the try
\* block returned or raised: the next statement of the try block, the
\* cleanup after a handled exception, or out of the with block
AfterStage(next, exc) ==
    IF exc = "none" THEN next
    ELSE IF Caught(exc) THEN "cleanup"
    ELSE "exit"

\* the state of the item when a stage returned or raised
StatusAfter(reached, exc) == IF exc = "none" THEN reached ELSE "Failed"

\* the cleanup block of main(): three os.remove calls in one try block.
\* inject names the call the operating system refuses (0: none); a call on
\* a missing file raises FileNotFoundError, an OSError, by itself.
\* reached counts the os.remove statements that were evaluated.
CleanupBlock(w, t, video, audio, sub, inject) ==
    IF ~Exists(w[video]) \/ inject = 1
    THEN [exc |-> "OSError", ws |-> w, tmp |-> t, reached |-> 1]
    ELSE LET w1 == [w EXCEPT ![video] = NoFile] IN
    IF ~Exists(w1[audio]) \/ inject = 2
    THEN [exc |-> "OSError", ws |-> w1, tmp |-> t, reached |-> 2]
    ELSE LET w2 == [w1 EXCEPT ![audio] = NoFile] IN
    IF sub = Unbound
    THEN [exc |-> "UnboundLocalError", ws |-> w2, tmp |-> t, reached |-> 3]
    ELSE IF ~Exists(t[sub]) \/ inject = 3
    THEN [exc |-> "OSError", ws |-> w2, tmp |-> t, reached |-> 3]
    ELSE [exc |-> "none", ws |-> w2, tmp |-> [t EXCEPT ![sub] = NoFile],
          reached |-> 3]

\* variant: the loop does not advance to the next upload
ForLoopStays(i, n) == [idx |-> i, pc |-> "save"]

\* line 133: the for loop takes the next upload, in upload order, after the
\* cleanup block of the one before it, and ends after the last
ForLoopNext(i, n) ==
    IF i < n THEN [idx |-> i + 1, pc |-> "save"]
    ELSE [idx |-> i, pc |-> "exit"]

\* variant: the directory is removed by a statement after the loop, which
\* an exception skips
ExitWorkspaceNormalOnly(w, aborted) ==
    IF aborted THEN w ELSE [p \in WsPaths |-> NoFile]

\* TemporaryDirectory.__exit__: the directory and all its contents are
\* removed, on normal exit and on an exception alike
ExitWorkspace(w, aborted) == [p \in WsPaths |-> NoFile]

\* ------------------------------------------------------------------ Init
Batches == UNION {[1..n -> Names] : n \in 1..MaxBatch}

Init ==
    /\ batch \in Batches
    /\ idx = 1
    /\ pc = "save"
    /\ temp_dir = TRUE
    /\ ws = [p \in WsPaths |-> NoFile]
    /\ tmp = [p \in SrtPaths |-> NoFile]
    /\ subtitle_file_path = Unbound
    /\ status = [i \in Items |-> "Pending"]
    /\ failStage = [i \in Items |-> "none"]
    /\ failExc = [i \in Items |-> "none"]
    /\ reported = [i \in Items |-> FALSE]
    /\ invoked = [i \in Items |-> <<>>]
    /\ svcCalls = 0
    /\ escaped = NoEscape
    /\ embedSaw = [i \in Items |-> "not_run"]
    /\ srtOf = [i \in Items |-> Unbound]
    /\ cleaned = 0
    /\ rmInject = 0
    /\ rmReached = 0
    /\ srtText = [p \in SrtPaths |-> <<>>]
    /\ last = NoCall

\* --------------------------------------------------------------- actions
\* lines 134-140: compute the paths, write the upload to temp_dir
Save ==
    /\ pc = "save"
    /\ ws' = [ws EXCEPT ![video_file_path] = File("input", idx, TRUE)]
    /\ status' = [status EXCEPT ![idx] = "Received"]
    /\ pc' = "extract"
    /\ UNCHANGED <<batch, idx, temp_dir, tmp, subtitle_file_path, failStage,
                   failExc, reported, invoked, svcCalls, escaped, embedSaw, srtOf,
                   cleaned, rmInject, rmReached, srtText, last>>

\* line 144, with the except clauses of lines 162-165
Extract ==
    /\ pc = "extract"
    /\ \E outcome \in Outcomes :
         LET r == extract_audio_from_video(ws, video_file_path,
                                           output_audio_path, outcome) IN
         /\ ws' = r.ws
         /\ status' = [status EXCEPT ![idx] = StatusAfter("AudioExtracted", r.exc)]
         /\ failStage' = [failStage EXCEPT
                            ![idx] = IF r.exc = "none" THEN @ ELSE "extraction"]
         /\ failExc' = [failExc EXCEPT ![idx] = r.exc]
         /\ reported' = [reported EXCEPT ![idx] = @ \/ Caught(r.exc)]
         /\ pc' = AfterStage("transcribe", r.exc)
         /\ invoked' = [invoked EXCEPT
                          ![idx] = Append(@, [stage |-> "extract", exc |-> r.exc])]
    /\ UNCHANGED <<batch, idx, temp_dir, tmp, subtitle_file_path, svcCalls,
                   escaped, embedSaw, srtOf, cleaned, rmInject, rmReached, srtText, last>>

\* line 147, with the except clauses of lines 162-165; an exception of the
\* openai client is neither FileNotFoundError nor OSError and leaves main()
Transcribe ==
    /\ pc = "transcribe"
    /\ \E svc \in {"ok", "error"}, wr \in Outcomes,
          p \in mktemp(tmp), resp \in RunResponses, sep \in LineSeps :
         LET r == transcribe_and_save_srt(ws, tmp, output_audio_path,
                                          svc, p, wr, resp, sep) IN
         /\ tmp' = r.tmp
         /\ srtText' = [srtText EXCEPT
                          ![p] = IF Exists(r.tmp[p]) THEN r.text ELSE @]
         /\ svcCalls' = svcCalls + r.calls
         /\ subtitle_file_path' =
                IF r.exc = "none" THEN r.ret ELSE subtitle_file_path
         /\ srtOf' = [srtOf EXCEPT ![idx] = r.ret]
         /\ status' = [status EXCEPT ![idx] = StatusAfter("Transcribed", r.exc)]
         /\ failStage' = [failStage EXCEPT
                            ![idx] = IF r.exc = "none" THEN @ ELSE "transcription"]
         /\ failExc' = [failExc EXCEPT ![idx] = r.exc]
         /\ reported' = [reported EXCEPT ![idx] = @ \/ Caught(r.exc)]
         /\ escaped' = IF r.exc = "none" \/ Caught(r.exc) THEN escaped
                       ELSE [exc |-> r.exc, stage |-> "transcription",
                             item |-> idx]
         /\ pc' = AfterStage("embed", r.exc)
         /\ invoked' = [invoked EXCEPT
                          ![idx] = Append(@, [stage |-> "transcribe", exc |-> r.exc])]
         /\ last' = [called |-> TRUE,
                     audio_present |-> Exists(ws[output_audio_path]),
                     exc |-> r.exc, ret |-> r.ret, calls |-> r.calls,
                     created |-> {q \in SrtPaths :
                                    ~Exists(tmp[q]) /\ Exists(r.tmp[q])},
                     response |-> IF r.exc = "none" THEN resp ELSE <<>>]
    /\ UNCHANGED <<batch, idx, temp_dir, ws, embedSaw, cleaned, rmInject,
                   rmReached>>

\* line 150, with the except clauses of lines 162-165
Embed ==
    /\ pc = "embed"
    /\ \E outcome \in Outcomes :
         LET r == embed_subtitle_in_video(ws, tmp, video_file_path,
                                          subtitle_file_path,
                                          output_video_path, outcome) IN
         /\ ws' = r.ws
         /\ status' = [status EXCEPT ![idx] = StatusAfter("Embedded", r.exc)]
         /\ failStage' = [failStage EXCEPT
                            ![idx] = IF r.exc = "none" THEN @ ELSE "embedding"]
         /\ failExc' = [failExc EXCEPT ![idx] = r.exc]
         /\ reported' = [reported EXCEPT ![idx] = @ \/ Caught(r.exc)]
         /\ pc' = AfterStage("deliver", r.exc)
         /\ invoked' = [invoked EXCEPT
                          ![idx] = Append(@, [stage |-> "embed", exc |-> r.exc])]
    /\ embedSaw' = [embedSaw EXCEPT
                      ![idx] = IF /\ Exists(ws[output_audio_path])
                                  /\ subtitle_file_path \in SrtPaths
                                  /\ Exists(tmp[subtitle_file_path])
                               THEN "both" ELSE "missing"]
    /\ UNCHANGED <<batch, idx, temp_dir, tmp, subtitle_file_path, svcCalls,
                   escaped, srtOf, cleaned, rmInject, rmReached, srtText, last>>

\* lines 153-160: the download button and the preview of the output video
Deliver ==
    /\ pc = "deliver"
    /\ LET exc == open_output(ws, output_video_path) IN
         /\ status' = [status EXCEPT ![idx] = StatusAfter("Delivered", exc)]
         /\ failStage' = [failStage EXCEPT
                            ![idx] = IF exc = "none" THEN @ ELSE "delivery"]
         /\ failExc' = [failExc EXCEPT ![idx] = exc]
         /\ reported' = [reported EXCEPT ![idx] = @ \/ Caught(exc)]
    /\ pc' = "cleanup"
    /\ UNCHANGED <<batch, idx, temp_dir, ws, tmp, subtitle_file_path,
                   invoked, svcCalls, escaped, embedSaw, srtOf, cleaned,
                   rmInject, rmReached, srtText, last>>

\* lines 168-173, then the next iteration of the for loop or its end
Cleanup ==
    /\ pc = "cleanup"
    /\ \E inject \in 0..3 :
         LET r == CleanupBlock(ws, tmp, video_file_path, output_audio_path,
                               subtitle_file_path, inject) IN
         /\ ws' = r.ws
         /\ tmp' = r.tmp
         /\ srtText' = [q \in SrtPaths |->
                          IF Exists(r.tmp[q]) THEN srtText[q] ELSE <<>>]
         /\ rmInject' = inject
         /\ rmReached' = r.reached
         /\ escaped' = IF r.exc = "none" \/ Caught(r.exc) THEN escaped
                       ELSE [exc |-> r.exc, stage |-> "cleanup", item |-> idx]
         /\ IF r.exc = "none" \/ Caught(r.exc)
            THEN /\ idx' = ForLoopNext(idx, Len(batch)).idx
                 /\ pc' = ForLoopNext(idx, Len(batch)).pc
            ELSE idx' = idx /\ pc' = "exit"
    /\ cleaned' = idx
    /\ UNCHANGED <<batch, temp_dir, subtitle_file_path, status, failStage,
                   failExc, reported, invoked, svcCalls, embedSaw, srtOf, last>>

\* line 131: leaving the with block
Teardown ==
    /\ pc = "exit"
    /\ ws' = ExitWorkspace(ws, escaped.exc # "none")
    /\ temp_dir' = FALSE
    /\ pc' = "done"
    /\ UNCHANGED <<batch, idx, tmp, subtitle_file_path, status, failStage,
                   failExc, reported, invoked, svcCalls, escaped, embedSaw, srtOf,
                   cleaned, rmInject, rmReached, srtText, last>>

Next ==
    \/ Save
    \/ Extract
    \/ Transcribe
    \/ Embed
    \/ Deliver
    \/ Cleanup
    \/ Teardown

Spec == Init /\ [][Next]_vars

\* ------------------------------------------- the Transcriber on its own
\* transcribe_and_save_srt called directly, on a file system in which the
\* audio path may or may not hold a file
UnitPaths == {AudioName, "a.mp4"}

InitTranscriber ==
    /\ batch = <<"a.mp4">>
    /\ idx = 1
    /\ pc = "unit"
    /\ temp_dir = TRUE
    /\ \E present \in SUBSET UnitPaths, c \in BOOLEAN :
         ws = [p \in WsPaths |->
                 IF p \in present THEN File("audio", 1, c) ELSE NoFile]
    /\ \E used \in (SUBSET SrtPaths) \ {SrtPaths} :
         tmp = [p \in SrtPaths |->
                  IF p \in used THEN File("srt", 1, TRUE) ELSE NoFile]
    /\ subtitle_file_path = Unbound
    /\ status = [i \in Items |-> "Pending"]
    /\ failStage = [i \in Items |-> "none"]
    /\ failExc = [i \in Items |-> "none"]
    /\ reported = [i \in Items |-> FALSE]
    /\ invoked = [i \in Items |-> <<>>]
    /\ svcCalls = 0
    /\ escaped = NoEscape
    /\ embedSaw = [i \in Items |-> "not_run"]
    /\ srtOf = [i \in Items |-> Unbound]
    /\ cleaned = 0
    /\ rmInject = 0
    /\ rmReached = 0
    /\ srtText = [p \in SrtPaths |->
                   IF Exists(tmp[p]) THEN <<"x">> ELSE <<>>]
    /\ last = NoCall

TranscribeUnit ==
    /\ pc = "unit"
    /\ \E audio \in UnitPaths, svc \in {"ok", "error"}, wr \in Outcomes,
          p \in mktemp(tmp), resp \in Responses, sep \in LineSeps :
         LET r == transcribe_and_save_srt(ws, tmp, audio, svc, p, wr,
                                          resp, sep) IN
         /\ tmp' = r.tmp
         /\ srtText' = [srtText EXCEPT
                          ![p] = IF Exists(r.tmp[p]) THEN r.text ELSE @]
         /\ svcCalls' = svcCalls + r.calls
         /\ subtitle_file_path' = r.ret
         /\ failExc' = [failExc EXCEPT ![idx] = r.exc]
         /\ last' = [called |-> TRUE,
                     audio_present |-> Exists(ws[audio]),
                     exc |-> r.exc, ret |-> r.ret, calls |-> r.calls,
                     created |-> {q \in SrtPaths :
                                    ~Exists(tmp[q]) /\ Exists(r.tmp[q])},
                     response |-> IF r.exc = "none" THEN resp ELSE <<>>]
    /\ pc' = "unit_done"
    /\ UNCHANGED <<batch, idx, temp_dir, ws, status, failStage, reported,
                   invoked, escaped, embedSaw, srtOf, cleaned, rmInject,
                   rmReached>>

NextTranscriber == TranscribeUnit

SpecTranscriber == InitTranscriber /\ [][NextTranscriber]_vars

\* ================================================================ claims
StageOrder == <<"extract", "transcribe", "embed">>
AllStagesSucceeded(i) ==
    /\ Len(invoked[i]) = 3
    /\ \A k \in 1..3 : invoked[i][k].exc = "none"

\* the state right after the cleanup block of item c has run
AfterCleanupOf(c) ==
    /\ cleaned = c
    /\ \/ pc = "save" /\ idx = c + 1
       \/ pc = "exit" /\ idx = c /\ escaped.stage # "transcription"

\* C1: when the run has ended, every item whose extraction or embedding
\* failed has been reported with st.error, its processing has not ended the
\* batch, and every other item whose three stages succeeded is Delivered.
C1_TranscoderFailureIsolated ==
    pc = "done" =>
      \A j \in Items :
        failStage[j] \in {"extraction", "embedding"} =>
          /\ reported[j]
          /\ escaped.item # j
          /\ \A i \in Items \ {j} : status[i] # "Pending"
          /\ \A i \in Items \ {j} :
               AllStagesSucceeded(i) => status[i] = "Delivered"

\* C2: when the run has ended, every item whose speech-to-text call raised
\* a service error has been reported with st.error, the error has not left
\* the loop, and every later item has been processed.
C2_ServiceErrorCaughtPerItem ==
    pc = "done" =>
      \A j \in Items :
        failExc[j] = "OpenAIError" =>
          /\ reported[j]
          /\ escaped.item # j
          /\ \A i \in Items : i > j => status[i] # "Pending"

\* C3: no exception ever leaves the cleanup block of an item: whatever the
\* outcome of the item, a failing deletion is logged and the loop goes on.
C3_CleanupNeverRaises == escaped.stage # "cleanup"

\* C4: when the run has ended, normally or by an exception that left the
\* loop, the temporary directory and every file in it are gone.
C4_WorkspaceRemoved ==
    pc = "done" => /\ ~temp_dir
                   /\ \A p \in WsPaths : ~Exists(ws[p])

C4_Witness ==
    /\ pc = "done"
    /\ escaped.exc # "none"
    /\ \E i \in Items : status[i] = "Delivered"

\* C5: when the run has ended and the workspace is torn down, no scratch
\* input, audio file, output video or subtitle file of the run exists.
C5_NoArtifactOutlivesRun ==
    pc = "done" => /\ \A p \in WsPaths : ~Exists(ws[p])
                   /\ \A q \in SrtPaths : ~Exists(tmp[q])

\* C6: right after the cleanup of an item, each of its artifacts (scratch
\* input, audio, the subtitle file the Transcriber returned) whose own
\* deletion the operating system did not refuse is gone.
C6_DeletionsIndependent ==
    \A c \in Items :
      AfterCleanupOf(c) =>
        /\ rmInject # 1 => ~Exists(ws[batch[c]])
        /\ rmInject # 2 => ~Exists(ws[AudioName])
        /\ (rmInject # 3 /\ srtOf[c] # Unbound) => ~Exists(tmp[srtOf[c]])

\* C7: for every item the stages are called in the order extract,
\* transcribe, embed, each only after the one before it returned without
\* an exception; an item with a failed stage is Failed and never Delivered,
\* and a Delivered item has had all three stages succeed.
C7_StrictStageOrder ==
    \A i \in Items :
      /\ Len(invoked[i]) <= 3
      /\ \A k \in 1..Len(invoked[i]) :
           /\ invoked[i][k].stage = StageOrder[k]
           /\ k > 1 => invoked[i][k - 1].exc = "none"
      /\ (\E k \in 1..Len(invoked[i]) : invoked[i][k].exc # "none")
            => status[i] = "Failed"
      /\ status[i] = "Delivered" => AllStagesSucceeded(i)

C7_Witness ==
    /\ pc = "done"
    /\ \E i, j \in Items :
         /\ status[i] = "Delivered"
         /\ failStage[j] = "transcription"
         /\ Len(invoked[j]) = 2

\* C8: for every item, a file exists at the item's output path only if the
\* Embedder has run for that item and found both the audio file and the
\* subtitle file.
C8_OutputOnlyAfterEmbed ==
    \A i \in Items :
      Exists(ws[OutputName(batch[i])]) => embedSaw[i] = "both"

\* C9: a call of the Transcriber on an audio path that holds no file raises
\* FileNotFoundError, makes no call to the service, returns no path and
\* creates no subtitle file.
C9_MissingAudioNoServiceCall ==
    (last.called /\ ~last.audio_present) =>
      /\ last.exc = "FileNotFoundError"
      /\ last.calls = 0
      /\ svcCalls = 0
      /\ last.ret = Unbound
      /\ last.created = {}

C9_Witness ==
    /\ pc = "unit_done"
    /\ last.called
    /\ ~last.audio_present

\* C10: a complete output video, once written by the Embedder, stays at its
\* path unchanged in every step but the teardown of the workspace.
C10_OutputKeptUntilTeardown ==
    [][\A p \in WsPaths :
         (ws[p].kind = "output" /\ ws[p].complete /\ pc # "exit")
            => ws'[p] = ws[p]]_vars

\* C11: uploads are processed in upload order, one at a time: every item
\* before the current one is Delivered or Failed and has had its cleanup
\* block run, nothing of an item after the current one has started (no
\* stage called, no scratch input written), and while the current item is
\* being processed the last cleanup that ran is that of the item before it.
Processing == {"save", "extract", "transcribe", "embed", "deliver", "cleanup"}

C11_SequentialInOrder ==
    /\ \A i \in Items :
         /\ i < idx => /\ status[i] \in {"Delivered", "Failed"}
                       /\ cleaned >= i
         /\ i > idx => /\ status[i] = "Pending"
                       /\ invoked[i] = <<>>
                       /\ \A p \in WsPaths : ws[p].item # i
    /\ pc \in Processing => cleaned = idx - 1

C11_Witness ==
    /\ idx = 2
    /\ pc = "extract"
    /\ status[1] = "Failed"
    /\ cleaned = 1

\* C12: no retries: a step never calls a stage that was already called for
\* the item, and an item that is Failed stays Failed.
StagesCalled(i) == {invoked[i][k].stage : k \in 1..Len(invoked[i])}

C12_NoRetries ==
    [][\A i \in Items :
         /\ Len(invoked'[i]) > Len(invoked[i]) =>
               invoked'[i][Len(invoked'[i])].stage \notin StagesCalled(i)
         /\ status[i] = "Failed" => status'[i] = "Failed"]_vars

C12_Witness ==
    /\ pc = "done"
    /\ Len(batch) = 2
    /\ status[1] = "Failed"
    /\ Len(invoked[1]) = 1
    /\ status[2] = "Delivered"

\* C13: a call of the Transcriber from main() that returns creates exactly
\* one file, at the returned path, where no file was before the call, and
\* that path differs from the path returned for every other item whose
\* subtitle file still exists; a call that raises returns no path.
C13_FreshSubtitlePath ==
    [][(pc = "transcribe" /\ pc' # "transcribe") =>
         IF last'.exc = "none"
         THEN /\ last'.ret \in SrtPaths
              /\ ~Exists(tmp[last'.ret])
              /\ Exists(tmp'[last'.ret])
              /\ last'.created = {last'.ret}
              /\ \A q \in SrtPaths \ {last'.ret} : tmp'[q] = tmp[q]
              /\ \A j \in Items \ {idx} :
                   (srtOf[j] # Unbound /\ Exists(tmp[srtOf[j]]))
                      => srtOf[j] # last'.ret
         ELSE /\ last'.ret = Unbound
              /\ srtOf'[idx] = Unbound]_vars

\* the second call of a run returned while the subtitle file of the first
\* item was still there
C13_Witness ==
    /\ idx = 2
    /\ pc = "embed"
    /\ srtOf[1] # Unbound
    /\ Exists(tmp[srtOf[1]])
    /\ srtOf[2] # Unbound
    /\ Exists(tmp[srtOf[2]])

\* C14: every subtitle file that exists holds the whole response of the
\* service.
C14_SubtitleNeverPartial ==
    \A q \in SrtPaths : Exists(tmp[q]) => tmp[q].complete

\* C15: after a call of the Transcriber that returned, the content of the
\* file at the returned path, read back, is the response of the service.
C15_RoundTrip ==
    (last.called /\ last.exc = "none") => srtText[last.ret] = last.response

\* C16: whenever the Transcriber is about to be called for an item, the
\* file at the shared audio path is the complete audio that the extraction
\* of this item's own upload wrote, also when the audio of an earlier item
\* was left behind by its cleanup.
C16_AudioOfSameItem ==
    pc = "transcribe" => ws[output_audio_path] = File("audio", idx, TRUE)

\* the cleanup of the first item stopped at the scratch input and left its
\* audio file behind
C16_Witness ==
    /\ idx = 2
    /\ pc = "transcribe"
    /\ status[1] = "Delivered"
    /\ cleaned = 1
    /\ rmInject = 1
    /\ rmReached = 1

\* C17: whenever the Embedder is about to be called for an item, no file
\* exists at the item's output path and the scratch input is the item's own
\* upload.
C17_EmbedderWritesFreshOutput ==
    pc = "embed" => /\ ~Exists(ws[output_video_path])
                    /\ ws[video_file_path] = File("input", idx, TRUE)

\* C18: right after the cleanup block of an item, if its third os.remove
\* statement was evaluated, subtitle_file_path was bound, to the path the
\* Transcriber returned for that item.
C18_CleanupUsesOwnSubtitlePath ==
    \A c \in Items :
      (AfterCleanupOf(c) /\ rmReached = 3) =>
        /\ subtitle_file_path # Unbound
        /\ subtitle_file_path = srtOf[c]

====
